---- MODULE Spec2Model ----
(***************************************************************************)
(* Outbound email campaign engine of hr-message-backend:                   *)
(* internals/services/email_service.go (StartEmailCampaign, SendEmail,     *)
(* SendEmailForUser) and internals/handlers/email_handler.go; the account  *)
(* and template requests of internals/services/auth_service.go and         *)
(* internals/services/template_service.go.                                 *)
(***************************************************************************)
EXTENDS Integers, Sequences, FiniteSets, TLC

\* ---------------------------------------------------------------- bounds
NumContacts == 3        \* rows of the Contact table
MaxRuns == 2            \* background campaign goroutines
MaxSyncs == 1           \* synchronous /api/email/send calls
MaxLen == 4             \* pieces in a template body
MaxPosts == 2           \* /api/email/send calls that upload a file
MaxReqs == 2            \* account and template requests
MaxEdits == 1           \* edit requests while campaigns run

\* ------------------------------------------------------- program constants
CampaignDelay == 120    \* time.Sleep(2 * time.Minute), in seconds
SyncDelay == 2          \* time.Sleep(2 * time.Second), in seconds

\* ------------------------------------------------------------ store rows
NULL == "NULL"          \* an optional column that is not set
UserIds == {"u1", "ghost"}   \* "ghost": a token whose account no longer exists
Accounts == {"u1"}           \* rows of the User table
Contacts == 1..NumContacts
RunIds == 1..MaxRuns
SyncIds == 1..MaxSyncs

\* Contact.userId: every contact row belongs to one account
ContactOwner(c) == "u1"

VARIABLES
    users,      \* User table: account -> [professionalEmail, mailAppPassword]
    templates,  \* Template table: rows [id, userId, name, subject, body]
    isSent,     \* Contact.isSent
    runs,       \* StartEmailCampaign calls and the goroutines they spawned
    syncs,      \* SendEmailForUser calls
    smtp,       \* a SendEmail call, stage by stage
    msg,        \* the message one iteration of the campaign loop composes
    files,      \* the directory ./uploads/temp: file name -> content
    posts,      \* multipart POST /api/email/send requests that upload a file
    reqs,       \* Signup, GetProfile, settings and template requests
    details     \* Contact.name, companyName and email

vars == <<users, templates, isSent, runs, syncs, smtp, msg, files, posts, reqs, details>>

\* ------------------------------------------------------------- helpers
\* the rows of the Template table with this userId: what a
\* Template.FindUnique(UserID.Equals(u)) can return, ErrNotFound when none
FindTemplate(u) == {t \in templates : t.userId = u}

\* "Default Template", defaultSubject and defaultBody of Signup and GetProfile
DefaultTemplate ==
    [name |-> "Default Template",
     subject |-> <<"Application for", "{Position}", "at", "{Company}">>,
     body |-> <<"Dear", "{Hiring Manager Name}", "{Position}", "{Company}">>]

\* a Template row: the id the store gave it, its owner and its three columns
TemplateRow(id, u, fields) ==
    [id |-> id, userId |-> u, name |-> fields.name,
     subject |-> fields.subject, body |-> fields.body]

RECURSIVE InStoreOrder(_, _)
\* the rows of the set `rows` from row c on, in the order the store returns
\* them
InStoreOrder(rows, c) ==
    IF c > NumContacts THEN <<>>
    ELSE (IF c \in rows THEN <<c>> ELSE <<>>) \o InStoreOrder(rows, c + 1)

FindUnsentUnclaimed(u, sent) ==
    InStoreOrder({c \in Contacts :
                    /\ ContactOwner(c) = u
                    /\ ~sent[c]
                    /\ \A r \in RunIds :
                          \/ runs[r].pc \notin {"recheck", "sending", "update", "sleep"}
                          \/ \A k \in 1..Len(runs[r].contacts) :
                                runs[r].contacts[k] # c}, 1)
\* Contact.FindMany(UserID.Equals(userId), IsSent.Equals(false))
FindUnsent(u, sent) ==
    InStoreOrder({c \in Contacts : ContactOwner(c) = u /\ ~sent[c]}, 1)

FindAllPending(u) ==
    InStoreOrder({c \in Contacts : ContactOwner(c) = u /\ ~isSent[c]}, 1)
\* Contact.FindMany(UserID.Equals(userId))
FindAll(u) ==
    InStoreOrder({c \in Contacts : ContactOwner(c) = u}, 1)

CredentialsMissingNullOnly(user) ==
    \/ user.professionalEmail = NULL
    \/ user.mailAppPassword = NULL
\* the credential test of StartEmailCampaign and SendEmailForUser
CredentialsMissing(user) ==
    \/ user.professionalEmail = NULL
    \/ user.mailAppPassword = NULL
    \/ user.professionalEmail = ""
    \/ user.mailAppPassword = ""

\* no sender address and secret
NoSender == [senderEmail |-> "", senderPassword |-> ""]

\* no name, subject and body of a template
NoFields == [name |-> "", subject |-> <<>>, body |-> <<>>]

\* a Contact row as the upload of the owner's list created it, or as a
\* PATCH /api/contacts/:id rewrote it; a text is a sequence of pieces, a
\* brace token or a run of text without braces
ContactRow(c, version) ==
    [name |-> IF version = "imported" THEN <<"Ann">> ELSE <<"Anna">>,
     companyName |-> IF version = "imported" THEN <<"Acme">> ELSE <<"Apex">>,
     email |-> <<version, c>>]

\* User.name of an account
UserName(u) == <<"Sam">>

\* a models.SendEmailRequest with nothing set
NoRequest ==
    [senderEmail |-> "", senderPassword |-> "", recipientEmail |-> <<>>,
     subject |-> <<>>, body |-> <<>>]

RECURSIVE ReplaceAll(_, _, _)
\* strings.ReplaceAll(s, old, new)
ReplaceAll(s, old, new) ==
    IF s = <<>> THEN <<>>
    ELSE (IF Head(s) = old THEN new ELSE <<Head(s)>>) \o ReplaceAll(Tail(s), old, new)

\* the body of the loop's message: three replacements, one after the other
PrepareBody(template, contact, user) ==
    LET named == ReplaceAll(template.body, "{name}", contact.name)
        placed == ReplaceAll(named, "{company}", contact.companyName)
    IN ReplaceAll(placed, "{hr_name}", user.name)

\* models.SendEmailRequest{Subject: template.Subject, Body: body}
PrepareRequest(template, contact, user) ==
    [subject |-> template.subject, body |-> PrepareBody(template, contact, user)]

\* ------------------------------------------------------------ SendEmail
\* the stages of SendEmail at which the relay, the network or the message
\* writer can fail; "none": every stage succeeds
SendStages == <<"dial", "client", "auth", "mail", "rcpt", "data", "write", "close">>
SendOutcomes == {"none"} \cup {SendStages[k] : k \in 1..Len(SendStages)}

\* EmailService.SendEmail: the error it returns when stage failAt fails
SendEmail(failAt) ==
    CASE failAt = "dial"   -> "failed to dial smtp (SMTPS/465)"
      [] failAt = "client" -> "failed to create smtp client"
      [] failAt = "auth"   -> "failed to authenticate"
      [] failAt = "mail"   -> "failed to set sender"
      [] failAt = "rcpt"   -> "failed to set recipient"
      [] failAt = "data"   -> "failed to create data writer"
      [] failAt = "write"  -> "failed to write email content"
      [] failAt = "close"  -> "failed to close data writer"
      [] OTHER             -> "nil"

\* everything SendEmail can return
SendResults == {SendEmail(failAt) : failAt \in SendOutcomes}
\* a failure of SendEmail as its callers see it: they test the error against
\* nil, print it and (SendEmailForUser) pass it on, whatever the stage
SendFailed == CHOOSE e \in SendResults : e # "nil"

\* ------------------------------------------------- StartEmailCampaign
\* one record per POST /api/email/campaign/start: what the handler answered
\* (resp, status) and, when a goroutine was started, that goroutine
IdleRun ==
    [pc |-> "idle", owner |-> NULL, resp |-> "nil", status |-> 0,
     contacts |-> <<>>, i |-> 0, err |-> "nil",
     attempts |-> <<>>,     \* contacts SendEmail was called for, in order
     inflight |-> 0,        \* SendEmail calls that have not returned
     failed |-> {},         \* "Failed to send email to ..." was logged
     marked |-> {},         \* the IsSent update was applied
     updFailed |-> {},      \* "Failed to update status for ..." was logged
     skipped |-> {},        \* found sent at the re-read
     unread |-> {},         \* the re-read returned an error
     gap |-> 0,             \* seconds slept since SendEmail last returned
     from |-> NoSender,     \* professionalEmail, mailAppPassword as fetched
     template |-> NoFields, \* the template as fetched
     rows |-> <<>>,         \* the contact rows as fetched, in list order
     req |-> NoRequest]     \* the request of the latest SendEmail call

StartEmailCampaignErrEmptySet(u, dbFail) ==
    IF dbFail = "user" \/ u \notin DOMAIN users
      THEN "failed to fetch user"
    ELSE IF CredentialsMissing(users[u])
      THEN "user email credentials not configured"
    ELSE IF dbFail = "template" \/ FindTemplate(u) = {}
      THEN "failed to fetch template"
    ELSE IF dbFail = "contacts"
      THEN "failed to fetch contacts"
    ELSE IF FindUnsent(u, isSent) = <<>>
      THEN "no pending contacts"
    ELSE "nil"
\* the store reads of StartEmailCampaign, in order; dbFail names the read
\* whose Exec returns an error ("none": every read succeeds).  A FindUnique
\* on a missing row returns ErrNotFound.
StartEmailCampaignErr(u, dbFail) ==
    IF dbFail = "user" \/ u \notin DOMAIN users
      THEN "failed to fetch user"
    ELSE IF CredentialsMissing(users[u])
      THEN "user email credentials not configured"
    ELSE IF dbFail = "template" \/ FindTemplate(u) = {}
      THEN "failed to fetch template"
    ELSE IF dbFail = "contacts"
      THEN "failed to fetch contacts"
    ELSE "nil"

\* for _, contact := range contacts: the loop body for position i, or the
\* end of the goroutine once the list is exhausted
LoopHead(run, i) ==
    [run EXCEPT !.i = i,
                !.pc = IF i > Len(run.contacts) THEN "done" ELSE "recheck"]

SpawnsRunAlways(contacts) == TRUE
\* len(contacts) == 0 returns before the goroutine is started
SpawnsRun(contacts) == Len(contacts) # 0

\* EmailHandler.StartCampaign: 500 campaign_error on an error, else 200
\* "Email campaign started in background"
StartCampaignStatus(err) == IF err # "nil" THEN 500 ELSE 200

\* the unused request record with the least id
FreeSlot(slots) ==
    LET free == {x \in DOMAIN slots : slots[x].pc = "idle"}
    IN IF free = {} THEN 0 ELSE CHOOSE x \in free : \A y \in free : x <= y

\* name, subject and body of the template row FindUnique returned
Fetched(u) ==
    LET t == CHOOSE t \in FindTemplate(u) : TRUE
    IN [name |-> t.name, subject |-> t.subject, body |-> t.body]

\* POST /api/email/campaign/start
StartCampaign(u, dbFail) ==
    LET err == StartEmailCampaignErr(u, dbFail)
        contacts == IF err = "nil" THEN FindUnsent(u, isSent) ELSE <<>>
        r == FreeSlot(runs)
        answered == [IdleRun EXCEPT !.owner = u, !.resp = err,
                                    !.status = StartCampaignStatus(err)]
    IN /\ r # 0
       /\ runs' = [runs EXCEPT ![r] =
             IF err # "nil" THEN [answered EXCEPT !.pc = "rejected"]
             ELSE IF ~SpawnsRun(contacts) THEN [answered EXCEPT !.pc = "noop"]
             ELSE LoopHead([answered EXCEPT
                              !.contacts = contacts,
                              !.from = [senderEmail |-> users[u].professionalEmail,
                                        senderPassword |-> users[u].mailAppPassword],
                              !.template = Fetched(u),
                              !.rows = [k \in 1..Len(contacts) |-> details[contacts[k]]]],
                            1)]
       /\ UNCHANGED <<users, templates, isSent, syncs, smtp, msg, files, posts, reqs, details>>

\* ------------------------------------------- the campaign goroutine
Current(run) == run.contacts[run.i]

NextIterationRetry(run) ==
    IF run.err = "send" THEN LoopHead(run, run.i) ELSE LoopHead(run, run.i + 1)
NextIterationStuck(run) ==
    IF run.pc = "recheck" THEN LoopHead(run, run.i) ELSE LoopHead(run, run.i + 1)
\* the end of the loop body: on to the next contact
NextIteration(run) == LoopHead(run, run.i + 1)

SkipsContactOnErrorOnly(readErr, sent) == readErr
\* if err != nil || currentContact.IsSent { continue }
SkipsContact(readErr, sent) == readErr \/ sent

LoopRequestCurrent(run, i) ==
    LET row == details[run.contacts[i]]
        composed == PrepareRequest(Fetched(run.owner), row, [name |-> UserName(run.owner)])
    IN [senderEmail |-> users[run.owner].professionalEmail,
        senderPassword |-> users[run.owner].mailAppPassword,
        recipientEmail |-> row.email,
        subject |-> composed.subject, body |-> composed.body]
\* the request the loop prepares for the contact at position i: from the
\* template, the credentials and the contact row the goroutine captured
LoopRequest(run, i) ==
    LET row == run.rows[i]
        composed == PrepareRequest(run.template, row, [name |-> UserName(run.owner)])
    IN [senderEmail |-> run.from.senderEmail,
        senderPassword |-> run.from.senderPassword,
        recipientEmail |-> row.email,
        subject |-> composed.subject, body |-> composed.body]

\* the re-read of the contact, and when it is still unsent the start of
\* SendEmail for it
CampaignRecheck(r, readErr) ==
    LET run == runs[r]
        c == Current(run)
    IN /\ run.pc = "recheck"
       /\ runs' = [runs EXCEPT ![r] =
             IF SkipsContact(readErr, isSent[c])
               THEN NextIteration(
                      IF readErr THEN [run EXCEPT !.unread = run.unread \cup {c}]
                      ELSE [run EXCEPT !.skipped = run.skipped \cup {c}])
               ELSE [run EXCEPT !.pc = "sending", !.err = "nil",
                                !.attempts = Append(run.attempts, c),
                                !.inflight = run.inflight + 1,
                                !.req = LoopRequest(run, run.i)]]
       /\ UNCHANGED <<users, templates, isSent, syncs, smtp, msg, files, posts, reqs, details>>

\* if err != nil { log } else { update the contact }
AfterSendAlwaysUpdate(err) == "update"
AfterSendAbort(err) == IF err # "nil" THEN "done" ELSE "update"
AfterSend(err) == IF err # "nil" THEN "sleep" ELSE "update"

CampaignSendEmailReports(r, err) ==
    LET run == runs[r]
    IN /\ run.pc = "sending"
       /\ runs' = [runs EXCEPT ![r] =
             [run EXCEPT !.pc = AfterSend(err),
                         !.resp = err,
                         !.status = StartCampaignStatus(err),
                         !.err = IF err = "nil" THEN "nil" ELSE "send",
                         !.failed = IF err = "nil" THEN run.failed
                                    ELSE run.failed \cup {Current(run)},
                         !.gap = 0,
                         !.inflight = run.inflight - 1]]
       /\ UNCHANGED <<users, templates, isSent, syncs, smtp, msg, files, posts, reqs, details>>
\* SendEmail returns err to the goroutine, which only tests it against nil
\* and prints it
CampaignSendEmail(r, err) ==
    LET run == runs[r]
    IN /\ run.pc = "sending"
       /\ runs' = [runs EXCEPT ![r] =
             [run EXCEPT !.pc = AfterSend(err),
                         !.err = IF err = "nil" THEN "nil" ELSE "send",
                         !.failed = IF err = "nil" THEN run.failed
                                    ELSE run.failed \cup {Current(run)},
                         !.gap = 0,
                         !.inflight = run.inflight - 1]]
       /\ UNCHANGED <<users, templates, isSent, syncs, smtp, msg, files, posts, reqs, details>>

\* Contact.FindUnique(ID.Equals(contact.ID)).Update(IsSent.Set(true))
MarkSentToggle(sent, c) == [sent EXCEPT ![c] = ~sent[c]]
MarkSent(sent, c) == [sent EXCEPT ![c] = TRUE]

\* the status update after a successful send; a failed update is logged
CampaignUpdate(r, updErr) ==
    LET run == runs[r]
        c == Current(run)
    IN /\ run.pc = "update"
       /\ isSent' = IF updErr THEN isSent ELSE MarkSent(isSent, c)
       /\ runs' = [runs EXCEPT ![r] =
             IF updErr
               THEN [run EXCEPT !.pc = "sleep", !.updFailed = run.updFailed \cup {c}]
               ELSE [run EXCEPT !.pc = "sleep", !.marked = run.marked \cup {c}]]
       /\ UNCHANGED <<users, templates, syncs, smtp, msg, files, posts, reqs, details>>

CampaignSleepRetry(r) ==
    LET run == runs[r]
        slept == [run EXCEPT !.gap = run.gap + CampaignDelay]
    IN /\ run.pc = "sleep"
       /\ runs' = [runs EXCEPT ![r] =
             IF Current(run) \in run.updFailed /\ ~isSent[Current(run)]
               THEN LoopHead(slept, run.i)
               ELSE NextIteration(slept)]
       /\ UNCHANGED <<users, templates, isSent, syncs, smtp, msg, files, posts, reqs, details>>
\* time.Sleep(2 * time.Minute) at the end of the loop body
CampaignSleep(r) ==
    LET run == runs[r]
    IN /\ run.pc = "sleep"
       /\ runs' = [runs EXCEPT ![r] =
             NextIteration([run EXCEPT !.gap = run.gap + CampaignDelay])]
       /\ UNCHANGED <<users, templates, isSent, syncs, smtp, msg, files, posts, reqs, details>>

\* --------------------------------------------------- SendEmailForUser
\* one record per POST /api/email/send that passed the handler's field
\* validation: the call's position and, once it returned, its answer
\* sender_email and sender_password of the request: left out, or some
\* address and secret of the client's choosing
SenderInputs ==
    {[senderEmail |-> "", senderPassword |-> ""],
     [senderEmail |-> "other@corp.example", senderPassword |-> "other-password"]}

IdleSync ==
    [pc |-> "idle", owner |-> NULL, all |-> FALSE, resp |-> "nil", status |-> 0,
     contacts |-> <<>>, i |-> 0,
     attempts |-> <<>>,     \* contacts SendEmail was called for, in order
     failedAt |-> 0,        \* the contact SendEmail failed for, 0 if none
     gap |-> 0,             \* seconds slept since SendEmail last returned
     from |-> NoSender]     \* the sender and secret set for the sends

\* recipient_email of a single send: the address of some contact
RecipientInputs == {1}

\* the store reads of SendEmailForUser before its first send
SendEmailForUserErr(u, sendToAll, dbFail) ==
    IF dbFail = "user" \/ u \notin DOMAIN users
      THEN "failed to fetch user"
    ELSE IF CredentialsMissing(users[u])
      THEN "user email credentials not configured. Please configure them in settings"
    ELSE IF sendToAll /\ dbFail = "contacts"
      THEN "failed to fetch contacts"
    ELSE "nil"

\* EmailHandler.SendEmail: 500 email_send_error on an error, else 200
SendEmailStatus(err) == IF err # "nil" THEN 500 ELSE 200

\* the call returns err to the handler
SyncReturn(sync, err) ==
    [sync EXCEPT !.pc = "done", !.resp = err, !.status = SendEmailStatus(err)]

\* the call enters SendEmail for contacts[i]
SyncAttempt(sync, i) ==
    [sync EXCEPT !.pc = "sending", !.i = i,
                 !.attempts = Append(sync.attempts, sync.contacts[i])]

SetCredentialsIfAbsent(user, sender) ==
    [senderEmail |-> IF sender.senderEmail = ""
                       THEN user.professionalEmail ELSE sender.senderEmail,
     senderPassword |-> IF sender.senderPassword = ""
                          THEN user.mailAppPassword ELSE sender.senderPassword]
\* req.SenderEmail = professionalEmail; req.SenderPassword = mailAppPassword
SetCredentials(user, sender) ==
    [senderEmail |-> user.professionalEmail,
     senderPassword |-> user.mailAppPassword]

\* SendEmailForUser up to its first SendEmail
SendEmailForUser(s, u, sendToAll, rcpt, dbFail, sender) ==
    LET err == SendEmailForUserErr(u, sendToAll, dbFail)
        contacts == IF sendToAll THEN FindAll(u) ELSE <<rcpt>>
        call == [IdleSync EXCEPT !.owner = u, !.all = sendToAll,
                                 !.from = IF err \in {"nil", "failed to fetch contacts"}
                                            THEN SetCredentials(users[u], sender)
                                            ELSE NoSender]
    IN /\ s = FreeSlot(syncs)
       /\ syncs' = [syncs EXCEPT ![s] =
             IF err # "nil" THEN SyncReturn(call, err)
             ELSE IF Len(contacts) = 0 THEN SyncReturn(call, "nil")
             ELSE SyncAttempt([call EXCEPT !.contacts = contacts], 1)]
       /\ UNCHANGED <<users, templates, isSent, runs, smtp, msg, files, posts, reqs, details>>

\* the error SendEmailForUser returns when SendEmail returned err for c:
\* "failed to send to <contact.Email>: <err>" in the loop, err itself for a
\* single send
SendFailure(sendToAll, c, err) ==
    IF sendToAll THEN <<"failed to send to", c>> ELSE err

SleepsAfterOffByOne(i, n) == i - 1 < n - 2
\* if i < len(contacts)-1 { time.Sleep }, with the source's 0-based i
SleepsAfter(i, n) == i - 1 < n - 1

SyncAfterSendContinue(sync, err) ==
    LET seen == IF err # "nil"
                  THEN [sync EXCEPT !.failedAt = sync.contacts[sync.i]] ELSE sync
    IN IF sync.i < Len(sync.contacts)
         THEN [seen EXCEPT !.pc = "sleep"]
         ELSE SyncReturn(seen, "nil")
\* what SendEmailForUser does with the error of SendEmail for contacts[i]
SyncAfterSend(sync, err) ==
    IF err # "nil"
      THEN SyncReturn([sync EXCEPT !.failedAt = sync.contacts[sync.i]],
                      SendFailure(sync.all, sync.contacts[sync.i], err))
    ELSE IF sync.all /\ SleepsAfter(sync.i, Len(sync.contacts))
      THEN [sync EXCEPT !.pc = "sleep"]
    ELSE IF sync.i < Len(sync.contacts)
      THEN SyncAttempt(sync, sync.i + 1)
    ELSE SyncReturn(sync, "nil")

\* the same, with the contact marked sent after a successful send
SyncSendEmailMarks(s, err) ==
    LET sync == syncs[s]
    IN /\ sync.pc = "sending"
       /\ syncs' = [syncs EXCEPT ![s] =
             SyncAfterSend([sync EXCEPT !.gap = 0], err)]
       /\ isSent' = IF err = "nil"
                      THEN [isSent EXCEPT ![sync.contacts[sync.i]] = TRUE]
                      ELSE isSent
       /\ UNCHANGED <<users, templates, runs, smtp, msg, files, posts, reqs, details>>
\* SendEmail returns err to SendEmailForUser
SyncSendEmail(s, err) ==
    LET sync == syncs[s]
    IN /\ sync.pc = "sending"
       /\ syncs' = [syncs EXCEPT ![s] =
             SyncAfterSend([sync EXCEPT !.gap = 0], err)]
       /\ UNCHANGED <<users, templates, isSent, runs, smtp, msg, files, posts, reqs, details>>

SyncSleepCampaignPace(s) ==
    LET sync == syncs[s]
    IN /\ sync.pc = "sleep"
       /\ syncs' = [syncs EXCEPT ![s] =
             SyncAttempt([sync EXCEPT !.gap = sync.gap + CampaignDelay], sync.i + 1)]
       /\ UNCHANGED <<users, templates, isSent, runs, smtp, msg, files, posts, reqs, details>>
\* time.Sleep(2 * time.Second), then the next iteration's SendEmail
SyncSleep(s) ==
    LET sync == syncs[s]
    IN /\ sync.pc = "sleep"
       /\ syncs' = [syncs EXCEPT ![s] =
             SyncAttempt([sync EXCEPT !.gap = sync.gap + SyncDelay], sync.i + 1)]
       /\ UNCHANGED <<users, templates, isSent, runs, smtp, msg, files, posts, reqs, details>>

\* ------------------------------------------- SendEmail, stage by stage
\* req.AttachmentPaths as m.WriteTo finds them: no path, every path can be
\* opened, or some path cannot
AttachmentInputs == {"none", "readable", "missing"}

\* one SendEmail call: the stage it is about to run, the stages it has
\* issued on the connection so far, and what it returned
IdleSend ==
    [pc |-> "idle", attach |-> "none",
     issued |-> <<>>,       \* stages run so far, "quit" for the deferred c.Quit()
     conn |-> "none",       \* "none" | "open" | "closed"
     client |-> FALSE,      \* smtp.NewClient returned a client
     err |-> "nil",         \* the error returned
     accepted |-> FALSE,    \* the relay answered the end of data with 250
     cleanup |-> <<>>]      \* the deferred calls run at the return, in order

\* the call runs stage: it is issued whether or not it then fails
Issue(call, stage) == [call EXCEPT !.issued = Append(call.issued, stage)]

\* the deferred calls without conn.Close()
DeferredNoClose(call) ==
    IF call.client THEN <<"quit">> ELSE <<>>
\* the deferred calls of SendEmail, last registered first: c.Quit() when the
\* client was created, then conn.Close() when the dial succeeded
Deferred(call) ==
    (IF call.client THEN <<"quit">> ELSE <<>>)
    \o (IF call.conn = "open" THEN <<"close">> ELSE <<>>)

\* return fmt.Errorf(...) for the stage that failed ("none": return nil),
\* then the deferred c.Quit() and conn.Close()
SendReturn(call, failAt) ==
    LET deferred == Deferred(call)
    IN [call EXCEPT !.pc = "returned",
                    !.err = SendEmail(failAt),
                    !.issued = IF \E k \in 1..Len(deferred) : deferred[k] = "quit"
                                 THEN Append(call.issued, "quit")
                                 ELSE call.issued,
                    !.conn = IF \E k \in 1..Len(deferred) : deferred[k] = "close"
                               THEN "closed" ELSE call.conn,
                    !.cleanup = deferred]

\* SendEmail is entered: the message is built, m.Attach records the paths
SendEmailCall(attach) ==
    /\ smtp.pc \in {"idle", "returned"}
    /\ smtp' = [IdleSend EXCEPT !.pc = "dial", !.attach = attach]
    /\ UNCHANGED <<users, templates, isSent, runs, syncs, msg, files, posts, reqs, details>>

\* tls.DialWithDialer(&d, "tcp4", "smtp.gmail.com:465", tlsConfig)
SendDial(ok) ==
    /\ smtp.pc = "dial"
    /\ smtp' = IF ok THEN [Issue(smtp, "dial") EXCEPT !.pc = "client", !.conn = "open"]
               ELSE SendReturn(Issue(smtp, "dial"), "dial")
    /\ UNCHANGED <<users, templates, isSent, runs, syncs, msg, files, posts, reqs, details>>

\* smtp.NewClient(conn, smtpHost): reads the relay's greeting
SendNewClient(ok) ==
    /\ smtp.pc = "client"
    /\ smtp' = IF ok THEN [Issue(smtp, "client") EXCEPT !.pc = "auth", !.client = TRUE]
               ELSE SendReturn(Issue(smtp, "client"), "client")
    /\ UNCHANGED <<users, templates, isSent, runs, syncs, msg, files, posts, reqs, details>>

\* c.Auth(smtp.PlainAuth(...))
SendAuth(ok) ==
    /\ smtp.pc = "auth"
    /\ smtp' = IF ok THEN [Issue(smtp, "auth") EXCEPT !.pc = "mail"]
               ELSE SendReturn(Issue(smtp, "auth"), "auth")
    /\ UNCHANGED <<users, templates, isSent, runs, syncs, msg, files, posts, reqs, details>>

\* c.Mail(req.SenderEmail)
SendMail(ok) ==
    /\ smtp.pc = "mail"
    /\ smtp' = IF ok THEN [Issue(smtp, "mail") EXCEPT !.pc = "rcpt"]
               ELSE SendReturn(Issue(smtp, "mail"), "mail")
    /\ UNCHANGED <<users, templates, isSent, runs, syncs, msg, files, posts, reqs, details>>

\* c.Rcpt(req.RecipientEmail)
SendRcpt(ok) ==
    /\ smtp.pc = "rcpt"
    /\ smtp' = IF ok THEN [Issue(smtp, "rcpt") EXCEPT !.pc = "data"]
               ELSE SendReturn(Issue(smtp, "rcpt"), "rcpt")
    /\ UNCHANGED <<users, templates, isSent, runs, syncs, msg, files, posts, reqs, details>>

\* c.Data()
SendData(ok) ==
    /\ smtp.pc = "data"
    /\ smtp' = IF ok THEN [Issue(smtp, "data") EXCEPT !.pc = "write"]
               ELSE SendReturn(Issue(smtp, "data"), "data")
    /\ UNCHANGED <<users, templates, isSent, runs, syncs, msg, files, posts, reqs, details>>

\* how m.WriteTo(w) can end: "ok"; "compose": an attached path cannot be
\* opened (the headers and the body have been written by then, the
\* connection is intact); "io": writing to the connection fails
WriteOutcomes(attach) ==
    IF attach = "missing" THEN {"compose", "io"} ELSE {"ok", "io"}

\* w.Close() on a failed write reaches the relay when the connection is
\* intact: the end-of-data line is sent after what was written so far
ClosesWriter(outcome) == outcome = "compose"

\* m.WriteTo(w), and on an error w.Close() before the return; relayAccepts:
\* the relay's answer to an end of data that reaches it, which this path does
\* not look at
SendWriteTo(outcome, relayAccepts) ==
    /\ smtp.pc = "write"
    /\ outcome \in WriteOutcomes(smtp.attach)
    /\ smtp' =
         IF outcome = "ok" THEN [Issue(smtp, "write") EXCEPT !.pc = "close"]
         ELSE IF ClosesWriter(outcome)
           THEN SendReturn([Issue(Issue(smtp, "write"), "close")
                               EXCEPT !.accepted = relayAccepts], "write")
         ELSE SendReturn(Issue(smtp, "write"), "write")
    /\ UNCHANGED <<users, templates, isSent, runs, syncs, msg, files, posts, reqs, details>>

\* w.Close(): the end-of-data line and the relay's answer to it
SendClose(ok) ==
    /\ smtp.pc = "close"
    /\ smtp' = IF ok THEN SendReturn([Issue(smtp, "close") EXCEPT !.accepted = TRUE], "none")
               ELSE SendReturn(Issue(smtp, "close"), "close")
    /\ UNCHANGED <<users, templates, isSent, runs, syncs, msg, files, posts, reqs, details>>

\* ------------------------------------------- composing a campaign message
\* a text is a sequence of pieces: a brace token, or a run of text without
\* braces
RECURSIVE Texts(_, _)
\* the texts of at most n pieces
Texts(pieces, n) ==
    IF n = 0 THEN {<<>>}
    ELSE LET shorter == Texts(pieces, n - 1)
         IN shorter \cup {Append(t, p) : t \in shorter, p \in pieces}

\* Template.body and Template.subject as the owner can store them: the three
\* tokens the loop replaces, a token it does not know, and plain text
BodyInputs == Texts({"{name}", "{company}", "{hr_name}", "{Position}", "Hi", "at"}, MaxLen)
SubjectInputs == {<<"Hi">>, <<"Hi", "{name}">>, <<"{Position}", "at", "{company}">>}

\* Contact.name, Contact.companyName and User.name: free text of the owner
NameInputs == {<<"Ann">>, <<"{company}">>}
CompanyInputs == {<<"Acme">>, <<"{hr_name}">>}
HrNameInputs == {<<"Sam">>}

IdleMsg ==
    [pc |-> "idle",
     template |-> [subject |-> <<>>, body |-> <<>>],
     contact |-> [name |-> <<>>, companyName |-> <<>>],
     user |-> [name |-> <<>>],
     req |-> [subject |-> <<>>, body |-> <<>>]]

\* one iteration of the loop composes the request for its contact
PrepareEmail ==
    /\ msg.pc = "idle"
    /\ msg' = [msg EXCEPT !.pc = "composed",
                          !.req = PrepareRequest(msg.template, msg.contact, msg.user)]
    /\ UNCHANGED <<users, templates, isSent, runs, syncs, smtp, files, posts, reqs, details>>

\* ------------------------------------------------- uploaded attachments
PostIds == 1..MaxPosts

\* file.Filename of the uploaded part: the client's choice
FileNames == {"cv.pdf", "letter.pdf"}

\* no file of that name in the directory
NoFile == 0

IdlePost ==
    [pc |-> "idle", owner |-> NULL, all |-> FALSE,
     path |-> NULL,         \* req.AttachmentPaths: uploadsDir + "/" + file.Filename
     left |-> 0,            \* SendEmail calls still to come
     carried |-> <<>>]      \* the file content each message was written with

\* c.SaveFile(file, filePath): the file of request p replaces whatever the
\* directory held under that name
SaveFile(dir, name, p) == [dir EXCEPT ![name] = p]

\* the handler saves the uploaded file and calls SendEmailForUser, which
\* reaches its first SendEmail: one call, or one per contact of the owner
PostSendEmail(p, u, name, sendToAll) ==
    /\ p = FreeSlot(posts)
    /\ files' = SaveFile(files, name, p)
    /\ posts' = [posts EXCEPT ![p] =
          [IdlePost EXCEPT !.pc = "sending", !.owner = u, !.all = sendToAll,
                           !.path = name,
                           !.left = IF sendToAll THEN NumContacts ELSE 1]]
    /\ UNCHANGED <<users, templates, isSent, runs, syncs, smtp, msg, reqs, details>>

\* m.WriteTo inside SendEmail opens the attached path and copies what the
\* file holds now into the message; after the last call the handler
\* answers, otherwise the loop sleeps and calls SendEmail again
PostWriteTo(p) ==
    LET post == posts[p]
    IN /\ post.pc = "sending"
       /\ posts' = [posts EXCEPT ![p] =
             [post EXCEPT !.carried = Append(post.carried, files[post.path]),
                          !.left = post.left - 1,
                          !.pc = IF post.left = 1 THEN "done" ELSE "sending"]]
       /\ UNCHANGED <<users, templates, isSent, runs, syncs, smtp, msg, files, reqs, details>>

\* ------------------------------------------- accounts and templates
ReqIds == 1..MaxReqs

\* the accounts of these requests: one that exists and one that signs up
AccountIds == {"u1", "u2"}

\* what a handler answers: the status, the error, and of a profile or a
\* template answer the template (no row: the empty set) and the
\* mail_app_password field
NoResponse ==
    [status |-> 0, error |-> "nil", template |-> {}, mailAppPassword |-> ""]

IdleReq ==
    [pc |-> "idle", op |-> "none", owner |-> NULL,
     req |-> NoFields,      \* the UpdateTemplateRequest of the service call
     stage |-> 0,           \* EnhanceTemplate: its first or second UpdateTemplate
     had |-> {},            \* the owner's template rows when the request came
     user |-> NoSender,     \* the credentials GetProfile read
     logged |-> <<>>,       \* what the request printed
     resp |-> NoResponse]

\* name, subject and body of a PUT /api/template request: all three are
\* required by the handler
UpdateTemplateInputs ==
    {[name |-> "Custom", subject |-> <<"Hi", "{name}">>,
      body |-> <<"Hi", "{name}", "at", "{company}">>]}

\* enhanced_content as the language model returned it
EnhancedInputs == {<<"Dear", "{name}">>}

\* professional_email and mail_app_password of a settings request: the
\* handler requires both
SettingsInputs ==
    {[professionalEmail |-> "hr@corp.example", mailAppPassword |-> "app-password"],
     [professionalEmail |-> "new@corp.example", mailAppPassword |-> "new-password"]}

CreateOneOkNoIndex(rows, u) == u \in DOMAIN users
\* Template.CreateOne(..., User.Link(u)) succeeds when the account exists and
\* the unique index Template_userId_key holds no row of that account
CreateOneOk(rows, u) ==
    /\ u \in DOMAIN users
    /\ ~\E t \in rows : t.userId = u

\* the row CreateOne inserts
Created(rows, u, fields) == TemplateRow(Cardinality(rows) + 1, u, fields)

\* FindUnique(UserID.Equals(u)).Update(Name, Subject, Body)
Updated(rows, u, fields) ==
    {IF t.userId = u THEN TemplateRow(t.id, u, fields) ELSE t : t \in rows}

\* the handler's answer with a template, 200
TemplateAnswer(rows) ==
    [NoResponse EXCEPT !.status = 200, !.template = rows]

ErrorAnswer(status, err) ==
    [NoResponse EXCEPT !.status = status, !.error = err]

\* ---- Signup
\* FindUnique by email, HashPassword and User.CreateOne
Signup(q, u) ==
    /\ q = FreeSlot(reqs)
    /\ LET call == [IdleReq EXCEPT !.op = "Signup", !.owner = u]
       IN IF u \in DOMAIN users
            THEN /\ reqs' = [reqs EXCEPT ![q] =
                       [call EXCEPT !.pc = "done",
                                    !.resp = ErrorAnswer(409, "user with this email already exists")]]
                 /\ users' = users
            ELSE /\ reqs' = [reqs EXCEPT ![q] = [call EXCEPT !.pc = "template"]]
                 /\ users' = [a \in DOMAIN users \cup {u} |->
                                IF a = u
                                  THEN [professionalEmail |-> NULL, mailAppPassword |-> NULL]
                                  ELSE users[a]]
    /\ UNCHANGED <<templates, isSent, runs, syncs, smtp, msg, files, posts, details>>

\* Template.CreateOne of the default template: a failure is printed only;
\* then the token and the answer
SignupCreateTemplate(q) ==
    LET call == reqs[q]
        ok == CreateOneOk(templates, call.owner)
    IN /\ call.op = "Signup" /\ call.pc = "template"
       /\ templates' = IF ok
                         THEN templates \cup {Created(templates, call.owner, DefaultTemplate)}
                         ELSE templates
       /\ reqs' = [reqs EXCEPT ![q] =
             [call EXCEPT !.pc = "done",
                          !.logged = IF ok THEN call.logged
                                     ELSE Append(call.logged, "Failed to create default template"),
                          !.resp = [NoResponse EXCEPT !.status = 201]]]
       /\ UNCHANGED <<users, isSent, runs, syncs, smtp, msg, files, posts, details>>

\* ---- UpdateEmailSettings
\* FindUnique(ID).Update(ProfessionalEmail, MailAppPassword)
UpdateEmailSettings(q, u, settings) ==
    /\ q = FreeSlot(reqs)
    /\ LET call == [IdleReq EXCEPT !.op = "UpdateEmailSettings", !.owner = u,
                                   !.pc = "done"]
       IN IF u \in DOMAIN users
            THEN /\ users' = [users EXCEPT ![u] = settings]
                 /\ reqs' = [reqs EXCEPT ![q] =
                       [call EXCEPT !.resp = [NoResponse EXCEPT !.status = 200]]]
            ELSE /\ users' = users
                 /\ reqs' = [reqs EXCEPT ![q] =
                       [call EXCEPT !.resp = ErrorAnswer(500, "failed to update email settings")]]
    /\ UNCHANGED <<templates, isSent, runs, syncs, smtp, msg, files, posts, details>>

\* ---- GetProfile
\* UserProfileResponse{..., MailAppPassword: mailAppPassword, Template: template}
ProfileAnswer(user, rows) ==
    [NoResponse EXCEPT !.status = 200, !.template = rows,
                       !.mailAppPassword = IF user.senderPassword = NULL
                                             THEN "" ELSE user.senderPassword]

\* User.FindUnique with the contacts and the template
GetProfile(q, u) ==
    /\ q = FreeSlot(reqs)
    /\ LET call == [IdleReq EXCEPT !.op = "GetProfile", !.owner = u]
       IN reqs' = [reqs EXCEPT ![q] =
             IF u \notin DOMAIN users
               THEN [call EXCEPT !.pc = "done",
                                 !.resp = ErrorAnswer(500, "failed to fetch user profile")]
             ELSE LET user == [senderEmail |-> users[u].professionalEmail,
                               senderPassword |-> users[u].mailAppPassword]
                  IN IF FindTemplate(u) # {}
                       THEN [call EXCEPT !.pc = "done", !.user = user,
                                         !.resp = ProfileAnswer(user, FindTemplate(u))]
                       ELSE [call EXCEPT !.pc = "create", !.user = user]]
    /\ UNCHANGED <<users, templates, isSent, runs, syncs, smtp, msg, files, posts, details>>

\* no template was fetched: Template.CreateOne of the default template; on
\* an error the profile is answered without a template
GetProfileCreate(q) ==
    LET call == reqs[q]
        ok == CreateOneOk(templates, call.owner)
        row == Created(templates, call.owner, DefaultTemplate)
    IN /\ call.op = "GetProfile" /\ call.pc = "create"
       /\ templates' = IF ok THEN templates \cup {row} ELSE templates
       /\ reqs' = [reqs EXCEPT ![q] =
             [call EXCEPT !.pc = "done",
                          !.resp = ProfileAnswer(call.user, IF ok THEN {row} ELSE {})]]
       /\ UNCHANGED <<users, isSent, runs, syncs, smtp, msg, files, posts, details>>

\* ---- TemplateService.UpdateTemplate, for PUT /api/template and for
\* POST /api/template/enhance
\* UpdateTemplate returned: the handler answers, or EnhanceTemplate drops
\* the result of its first call and goes on to GetTemplate
AfterUpdateTemplate(call, rows, err) ==
    IF call.op = "EnhanceTemplate" /\ call.stage = 1
      THEN [call EXCEPT !.pc = "get"]
    ELSE IF err # "nil"
      THEN [call EXCEPT !.pc = "done",
                        !.resp = ErrorAnswer(500,
                                   IF call.op = "EnhanceTemplate"
                                     THEN "Failed to save enhanced template"
                                     ELSE "Failed to update template")]
    ELSE [call EXCEPT !.pc = "done", !.resp = TemplateAnswer(rows)]

\* the Update call of UpdateTemplate: the row is updated, or there is none
ServiceUpdate(call) ==
    IF FindTemplate(call.owner) # {}
      THEN AfterUpdateTemplate(call,
             {t \in Updated(templates, call.owner, call.req) : t.userId = call.owner}, "nil")
      ELSE [call EXCEPT !.pc = "create"]

\* PUT /api/template
UpdateTemplate(q, u, fields) ==
    /\ q = FreeSlot(reqs)
    /\ LET call == [IdleReq EXCEPT !.op = "UpdateTemplate", !.owner = u,
                                   !.req = fields, !.had = FindTemplate(u)]
       IN reqs' = [reqs EXCEPT ![q] = ServiceUpdate(call)]
    /\ templates' = Updated(templates, u, fields)
    /\ UNCHANGED <<users, isSent, runs, syncs, smtp, msg, files, posts, details>>

\* POST /api/template/enhance: the first UpdateTemplate, with the enhanced
\* content as Body and nothing else set
EnhanceTemplate(q, u, content) ==
    LET fields == [NoFields EXCEPT !.body = content]
    IN /\ q = FreeSlot(reqs)
       /\ LET call == [IdleReq EXCEPT !.op = "EnhanceTemplate", !.owner = u,
                                      !.stage = 1, !.req = fields,
                                      !.had = FindTemplate(u)]
          IN reqs' = [reqs EXCEPT ![q] = ServiceUpdate(call)]
       /\ templates' = Updated(templates, u, fields)
       /\ UNCHANGED <<users, isSent, runs, syncs, smtp, msg, files, posts, details>>

\* the Update found no row: Template.CreateOne
TemplateCreate(q) ==
    LET call == reqs[q]
        ok == CreateOneOk(templates, call.owner)
        row == Created(templates, call.owner, call.req)
    IN /\ call.op \in {"UpdateTemplate", "EnhanceTemplate"} /\ call.pc = "create"
       /\ templates' = IF ok THEN templates \cup {row} ELSE templates
       /\ reqs' = [reqs EXCEPT ![q] =
             IF ok THEN AfterUpdateTemplate(call, {row}, "nil")
             ELSE AfterUpdateTemplate(call, {}, "failed to update/create template")]
       /\ UNCHANGED <<users, isSent, runs, syncs, smtp, msg, files, posts, details>>

\* EnhanceTemplate: GetTemplate "to preserve other fields", after the first
\* UpdateTemplate
EnhanceGet(q) ==
    LET call == reqs[q]
        found == FindTemplate(call.owner)
    IN /\ call.op = "EnhanceTemplate" /\ call.pc = "get"
       /\ reqs' = [reqs EXCEPT ![q] =
             IF found = {}
               THEN [call EXCEPT !.pc = "done",
                                 !.resp = ErrorAnswer(500, "Failed to fetch existing template for update")]
             ELSE LET existing == CHOOSE t \in found : TRUE
                  IN [call EXCEPT !.pc = "save", !.stage = 2,
                                  !.req = [name |-> existing.name,
                                           subject |-> existing.subject,
                                           body |-> call.req.body]]]
       /\ UNCHANGED <<users, templates, isSent, runs, syncs, smtp, msg, files, posts, details>>

\* EnhanceTemplate: the second UpdateTemplate, with the name and subject
\* GetTemplate returned
EnhanceSave(q) ==
    LET call == reqs[q]
    IN /\ call.op = "EnhanceTemplate" /\ call.pc = "save"
       /\ reqs' = [reqs EXCEPT ![q] = ServiceUpdate(call)]
       /\ templates' = Updated(templates, call.owner, call.req)
       /\ UNCHANGED <<users, isSent, runs, syncs, smtp, msg, files, posts, details>>

\* ---- PATCH /api/contacts/:id
\* the owner rewrites the name, the company and the address of one of their
\* contacts
UpdateContact(q, u, c) ==
    /\ q = FreeSlot(reqs)
    /\ LET call == [IdleReq EXCEPT !.op = "UpdateContact", !.owner = u, !.pc = "done"]
       IN IF u \in DOMAIN users /\ ContactOwner(c) = u
            THEN /\ details' = [details EXCEPT ![c] = ContactRow(c, "edited")]
                 /\ reqs' = [reqs EXCEPT ![q] =
                       [call EXCEPT !.resp = [NoResponse EXCEPT !.status = 200]]]
            ELSE /\ details' = details
                 /\ reqs' = [reqs EXCEPT ![q] =
                       [call EXCEPT !.resp = ErrorAnswer(500, "contact not found")]]
    /\ UNCHANGED <<users, templates, isSent, runs, syncs, smtp, msg, files, posts>>

\* --------------------------------------------------------------- Init
\* what the account row can hold: nothing after Signup, and after
\* UpdateEmailSettings whatever the client sent for both columns
StoredCredentials ==
    {[professionalEmail |-> NULL, mailAppPassword |-> NULL]}
    \cup [professionalEmail : {"", "hr@corp.example"},
          mailAppPassword : {"", "app-password"}]

\* no request has arrived, the upload directory is empty and the contact
\* rows are as they were imported
NoRequests ==
    /\ runs = [r \in RunIds |-> IdleRun]
    /\ syncs = [s \in SyncIds |-> IdleSync]
    /\ smtp = IdleSend
    /\ files = [f \in FileNames |-> NoFile]
    /\ posts = [p \in PostIds |-> IdlePost]
    /\ reqs = [q \in ReqIds |-> IdleReq]
    /\ details = [c \in Contacts |-> ContactRow(c, "imported")]

Init ==
    /\ users \in [Accounts -> StoredCredentials]
    /\ templates \in {{}, {TemplateRow(1, "u1", DefaultTemplate)}}
    /\ isSent \in [Contacts -> BOOLEAN]
    /\ NoRequests
    /\ msg = IdleMsg

\* an account with its settings saved, the default template and every
\* contact pending
InitConfigured ==
    /\ users = [u \in Accounts |->
                   [professionalEmail |-> "hr@corp.example",
                    mailAppPassword |-> "app-password"]]
    /\ templates = {TemplateRow(1, "u1", DefaultTemplate)}
    /\ isSent = [c \in Contacts |-> FALSE]
    /\ NoRequests
    /\ msg = IdleMsg

\* the campaign path: POST /api/email/campaign/start and its goroutines
NextCampaign ==
    \/ \E u \in UserIds, dbFail \in {"none", "user", "template", "contacts"} :
          StartCampaign(u, dbFail)
    \/ \E r \in RunIds, readErr \in BOOLEAN : CampaignRecheck(r, readErr)
    \/ \E r \in RunIds, err \in {"nil", SendFailed} : CampaignSendEmail(r, err)
    \/ \E r \in RunIds, updErr \in BOOLEAN : CampaignUpdate(r, updErr)
    \/ \E r \in RunIds : CampaignSleep(r)

\* the synchronous path: POST /api/email/send
NextSync ==
    \/ \E s \in SyncIds, u \in UserIds, sendToAll \in BOOLEAN,
          rcpt \in RecipientInputs, dbFail \in {"none", "user", "contacts"},
          sender \in SenderInputs :
          SendEmailForUser(s, u, sendToAll, rcpt, dbFail, sender)
    \/ \E s \in SyncIds, err \in {"nil", SendFailed} : SyncSendEmail(s, err)
    \/ \E s \in SyncIds : SyncSleep(s)

Next == NextCampaign \/ NextSync

\* every interleaving of campaign requests, their goroutines and
\* synchronous sends
Spec == Init /\ [][Next]_vars

\* campaign requests and their goroutines alone (a synchronous send reads
\* the stores and writes none of them)
SpecCampaign == Init /\ [][NextCampaign]_vars

\* the steps of the goroutine of run r
Goroutine(r) ==
    \/ \E readErr \in BOOLEAN : CampaignRecheck(r, readErr)
    \/ \E err \in {"nil", SendFailed} : CampaignSendEmail(r, err)
    \/ \E updErr \in BOOLEAN : CampaignUpdate(r, updErr)
    \/ CampaignSleep(r)

\* the campaign path when every store call, every SendEmail call and every
\* sleep of a goroutine returns
SpecCampaignLive ==
    Init /\ [][NextCampaign]_vars /\ \A r \in RunIds : WF_vars(Goroutine(r))

\* synchronous sends alone
SpecSync == Init /\ [][NextSync]_vars

\* SendEmail calls, one at a time, stage by stage
NextSend ==
    \/ \E attach \in AttachmentInputs : SendEmailCall(attach)
    \/ \E ok \in BOOLEAN : SendDial(ok)
    \/ \E ok \in BOOLEAN : SendNewClient(ok)
    \/ \E ok \in BOOLEAN : SendAuth(ok)
    \/ \E ok \in BOOLEAN : SendMail(ok)
    \/ \E ok \in BOOLEAN : SendRcpt(ok)
    \/ \E ok \in BOOLEAN : SendData(ok)
    \/ \E outcome \in {"ok", "compose", "io"}, relayAccepts \in BOOLEAN :
          SendWriteTo(outcome, relayAccepts)
    \/ \E ok \in BOOLEAN : SendClose(ok)

SpecSend == Init /\ [][NextSend]_vars

\* an iteration of the loop is about to compose: any stored template, any
\* contact and any owner name, for a configured account
InitCompose ==
    /\ users = [u \in Accounts |->
                   [professionalEmail |-> "hr@corp.example",
                    mailAppPassword |-> "app-password"]]
    /\ templates = {TemplateRow(1, "u1", DefaultTemplate)}
    /\ isSent = [c \in Contacts |-> FALSE]
    /\ NoRequests
    /\ msg \in {[IdleMsg EXCEPT !.template = [subject |-> subject, body |-> body],
                                !.contact = [name |-> name, companyName |-> company],
                                !.user = [name |-> hr]] :
                   subject \in SubjectInputs, body \in BodyInputs,
                   name \in NameInputs, company \in CompanyInputs, hr \in HrNameInputs}

NextCompose == PrepareEmail

\* requests that upload an attachment, of two owners
NextUpload ==
    \/ \E p \in PostIds, u \in {"u1", "u2"}, name \in FileNames, sendToAll \in BOOLEAN :
          PostSendEmail(p, u, name, sendToAll)
    \/ \E p \in PostIds : PostWriteTo(p)

\* the account and template requests
NextAccount ==
    \/ \E q \in ReqIds, u \in AccountIds : Signup(q, u)
    \/ \E q \in ReqIds : SignupCreateTemplate(q)
    \/ \E q \in ReqIds, u \in AccountIds, settings \in SettingsInputs :
          UpdateEmailSettings(q, u, settings)
    \/ \E q \in ReqIds, u \in AccountIds : GetProfile(q, u)
    \/ \E q \in ReqIds : GetProfileCreate(q)
    \/ \E q \in ReqIds, u \in AccountIds, fields \in UpdateTemplateInputs :
          UpdateTemplate(q, u, fields)
    \/ \E q \in ReqIds, u \in AccountIds, content \in EnhancedInputs :
          EnhanceTemplate(q, u, content)
    \/ \E q \in ReqIds : TemplateCreate(q)
    \/ \E q \in ReqIds : EnhanceGet(q)
    \/ \E q \in ReqIds : EnhanceSave(q)

\* an account that exists, with or without settings and template, and the
\* requests of that account and of one that signs up
InitAccount ==
    /\ users \in [Accounts -> StoredCredentials]
    /\ templates \in {{}, {TemplateRow(1, "u1", DefaultTemplate)}}
    /\ isSent = [c \in Contacts |-> FALSE]
    /\ NoRequests
    /\ msg = IdleMsg

SpecAccount == InitAccount /\ [][NextAccount]_vars

\* the owner's edits of the template, the settings and the contacts
NextEdit ==
    \/ \E q \in 1..MaxEdits, u \in Accounts, fields \in UpdateTemplateInputs :
          UpdateTemplate(q, u, fields)
    \/ \E q \in 1..MaxEdits, u \in Accounts, settings \in SettingsInputs :
          UpdateEmailSettings(q, u, settings)
    \/ \E q \in 1..MaxEdits, u \in Accounts, c \in Contacts : UpdateContact(q, u, c)

\* campaign runs of a configured owner, and the owner's edits while they run
SpecSnapshot == InitConfigured /\ [][NextCampaign \/ NextEdit]_vars

SpecUpload == InitConfigured /\ [][NextUpload]_vars

\* the composing of one message, for every template and contact
SpecCompose == InitCompose /\ [][NextCompose]_vars


\* =================================================================
\* Properties
\* =================================================================

\* run r's step in which the IsSent update of a successful send to c returns
UpdateReturns(r, c) ==
    /\ runs[r].pc = "update"
    /\ runs'[r].pc # "update"
    /\ Current(runs[r]) = c
    /\ runs[r].attempts[Len(runs[r].attempts)] = c
    /\ runs[r].err = "nil"
    /\ c \notin runs[r].failed

\* C1 as stated: within a campaign run a contact becomes sent if and only
\* if SendEmail succeeded for it in that iteration, and no other step of a
\* run marks a contact sent
C1_AsStated ==
    [][\A c \in Contacts :
          /\ (~isSent[c] /\ isSent'[c]) => \E r \in RunIds : UpdateReturns(r, c)
          /\ \A r \in RunIds : UpdateReturns(r, c) => isSent'[c]]_vars

\* C1 amended: a contact becomes sent in exactly those steps in which the
\* status update that follows a successful SendEmail for that contact, in
\* the same iteration, is applied without error; no other step of a run
\* marks a contact sent
C1_SentIffDeliveredAndUpdated ==
    [][\A c \in Contacts :
          /\ (~isSent[c] /\ isSent'[c]) =>
                \E r \in RunIds : UpdateReturns(r, c) /\ c \in runs'[r].marked
          /\ \A r \in RunIds :
                UpdateReturns(r, c) /\ c \notin runs'[r].updFailed => isSent'[c]]_vars

\* a run delivered to a contact, marked it and went on to the pacing delay
C1_Witness ==
    \E r \in RunIds :
        /\ runs[r].pc = "sleep"
        /\ Current(runs[r]) \in runs[r].marked
        /\ Current(runs[r]) \notin runs[r].failed
        /\ isSent[Current(runs[r])]

\* C2: in every interleaving of campaign runs and synchronous sends, no step
\* changes a contact from sent back to pending, so a contact's state changes
\* at most once, from pending to sent
C2_SentIsForever ==
    [][\A c \in Contacts : isSent[c] => isSent'[c]]_vars

\* two runs and a synchronous send-to-all attempted the same contact, and it
\* is marked sent
C2_Witness ==
    \E c \in Contacts :
        /\ isSent[c]
        /\ \A r \in RunIds : c \in runs[r].marked
        /\ \E s \in SyncIds :
              /\ syncs[s].all
              /\ \E k \in 1..Len(syncs[s].attempts) : syncs[s].attempts[k] = c

\* the contacts of a list, as a set
Members(list) == {list[k] : k \in 1..Len(list)}

\* C3: a campaign goroutine ends only after the loop reached every loaded
\* contact: each one was attempted, unless its re-read skipped it, so with
\* no skip the attempts are the whole list in order; a contact whose send
\* failed was not marked by this run, and is still pending at the end unless
\* another run delivered to it and marked it
C3_FailureDoesNotAbort ==
    \A r \in RunIds :
        runs[r].pc = "done" =>
            /\ runs[r].i = Len(runs[r].contacts) + 1
            /\ Members(runs[r].contacts) =
                  Members(runs[r].attempts) \cup runs[r].skipped \cup runs[r].unread
            /\ (runs[r].skipped \cup runs[r].unread = {}
                  => runs[r].attempts = runs[r].contacts)
            /\ \A c \in runs[r].failed :
                  /\ c \notin runs[r].marked
                  /\ isSent[c] => \E q \in RunIds \ {r} : c \in runs[q].marked

\* a finished run over three contacts whose second send failed: the first
\* and the third were attempted and marked, the second is still pending
C3_Witness ==
    \E r \in RunIds :
        /\ runs[r].pc = "done"
        /\ Len(runs[r].contacts) = 3
        /\ runs[r].attempts = runs[r].contacts
        /\ runs[r].failed = {runs[r].contacts[2]}
        /\ runs[r].marked = {runs[r].contacts[1], runs[r].contacts[3]}
        /\ ~isSent[runs[r].contacts[2]]

\* C4: a send-to-all call whose SendEmail failed for a contact has returned:
\* that contact is the last one attempted, the ones attempted are the
\* contacts up to it in store order, the error names it and the handler
\* answers 500
C4_FirstFailureEndsCall ==
    \A s \in SyncIds :
        LET sync == syncs[s]
            n == Len(sync.attempts)
        IN sync.all /\ sync.failedAt # 0 =>
              /\ sync.pc = "done"
              /\ n >= 1 /\ sync.attempts[n] = sync.failedAt
              /\ sync.attempts = SubSeq(sync.contacts, 1, n)
              /\ sync.resp = <<"failed to send to", sync.failedAt>>
              /\ sync.status = 500

\* a send-to-all call over several contacts failed on the first one and
\* returned with no other attempt
C4_Witness ==
    \E s \in SyncIds :
        /\ syncs[s].all
        /\ syncs[s].pc = "done"
        /\ Len(syncs[s].contacts) >= 2
        /\ syncs[s].failedAt = syncs[s].contacts[1]
        /\ syncs[s].attempts = <<syncs[s].contacts[1]>>
        /\ syncs[s].status = 500

\* a campaign request is answered in this step
RequestAnswered(r) == runs[r].pc = "idle" /\ runs'[r].pc # "idle"

\* a synchronous send request enters SendEmailForUser in this step
SyncEntered(s) == syncs[s].pc = "idle" /\ syncs'[s].pc # "idle"

\* the step changes nothing but request record r of the campaign requests
OnlyRequestChanges(r) ==
    /\ isSent' = isSent
    /\ syncs' = syncs
    /\ \A q \in RunIds \ {r} : runs'[q] = runs[q]

\* the errors of StartEmailCampaign that, for an existing account with a
\* template, only a failing store read produces
StoreReadFailures ==
    {"failed to fetch user", "failed to fetch template", "failed to fetch contacts"}

\* C5: a campaign request of an owner with both credentials set, a template
\* and no pending contact is answered with success (unless a store read
\* itself fails, which is answered with that failure); it starts no
\* goroutine, attempts no send and leaves every contact's state alone
C5_NothingPendingIsNoOp ==
    [][\A r \in RunIds :
          LET u == runs'[r].owner
          IN (/\ RequestAnswered(r)
              /\ u \in Accounts
              /\ users[u].professionalEmail \notin {NULL, ""}
              /\ users[u].mailAppPassword \notin {NULL, ""}
              /\ \E t \in templates : t.userId = u
              /\ \A c \in Contacts : ContactOwner(c) = u => isSent[c])
             =>
             /\ runs'[r].resp \notin StoreReadFailures =>
                   /\ runs'[r].pc = "noop"
                   /\ runs'[r].resp = "nil"
                   /\ runs'[r].status = 200
             /\ runs'[r].pc \in {"noop", "rejected"}
             /\ runs'[r].contacts = <<>>
             /\ runs'[r].attempts = <<>>
             /\ OnlyRequestChanges(r)]_vars

\* a request found nothing pending after an earlier run had delivered to
\* every contact: answered 200, no goroutine
C5_Witness ==
    \E r, q \in RunIds :
        /\ runs[r].pc = "noop"
        /\ runs[r].status = 200
        /\ runs[q].pc = "done"
        /\ runs[q].marked = Contacts

\* a credential column that is absent or empty
AbsentOrEmpty(v) == v = NULL \/ v = ""

\* C6: a campaign request of an owner whose professional email or mail app
\* password is absent or empty, or who has no template, is answered with an
\* error (500); it starts no goroutine, attempts no send and changes no
\* contact; a synchronous send of an owner whose credentials are absent or
\* empty returns an error (500) before any send, and changes nothing else
C6_MissingPreconditionRejects ==
    [][/\ \A r \in RunIds :
            LET u == runs'[r].owner
            IN (/\ RequestAnswered(r)
                /\ u \in Accounts
                /\ \/ AbsentOrEmpty(users[u].professionalEmail)
                   \/ AbsentOrEmpty(users[u].mailAppPassword)
                   \/ ~\E t \in templates : t.userId = u)
               =>
               /\ runs'[r].pc = "rejected"
               /\ runs'[r].resp # "nil"
               /\ runs'[r].status = 500
               /\ runs'[r].contacts = <<>>
               /\ runs'[r].attempts = <<>>
               /\ OnlyRequestChanges(r)
       /\ \A s \in SyncIds :
            LET u == syncs'[s].owner
            IN (/\ SyncEntered(s)
                /\ u \in Accounts
                /\ \/ AbsentOrEmpty(users[u].professionalEmail)
                   \/ AbsentOrEmpty(users[u].mailAppPassword))
               =>
               /\ syncs'[s].pc = "done"
               /\ syncs'[s].resp # "nil"
               /\ syncs'[s].status = 500
               /\ syncs'[s].attempts = <<>>
               /\ isSent' = isSent
               /\ runs' = runs]_vars

\* an owner with an empty mail app password: a campaign request and a
\* synchronous send were both refused for the missing credentials
C6_Witness ==
    /\ users["u1"].professionalEmail = "hr@corp.example"
    /\ users["u1"].mailAppPassword = ""
    /\ \E c \in Contacts : ~isSent[c]
    /\ \E r \in RunIds :
          /\ runs[r].pc = "rejected"
          /\ runs[r].owner = "u1"
          /\ runs[r].resp = "user email credentials not configured"
    /\ \E s \in SyncIds :
          /\ syncs[s].pc = "done"
          /\ syncs[s].owner = "u1"
          /\ syncs[s].status = 500
          /\ syncs[s].attempts = <<>>

\* C7: a goroutine starts SendEmail for a contact only in the step that
\* re-reads that contact, and only when the re-read finds it pending; a
\* contact found sent at its re-read is skipped: the loop moves to the next
\* contact with no send attempt
C7_RecheckSkipsSent ==
    [][\A r \in RunIds :
          /\ (runs[r].pc = "recheck" /\ runs'[r] # runs[r]
                /\ isSent[Current(runs[r])])
             =>
             /\ runs'[r].attempts = runs[r].attempts
             /\ runs'[r].inflight = 0
             /\ runs'[r].pc \in {"recheck", "done"}
             /\ runs'[r].i = runs[r].i + 1
             /\ Current(runs[r]) \in runs'[r].skipped \cup runs'[r].unread
          /\ runs'[r].attempts # runs[r].attempts
             =>
             /\ runs[r].pc = "recheck"
             /\ ~isSent[Current(runs[r])]
             /\ runs'[r].attempts = Append(runs[r].attempts, Current(runs[r]))]_vars

\* a run skipped a contact that another run had marked sent after the list
\* was loaded
C7_Witness ==
    \E r \in RunIds : \E c \in runs[r].skipped :
        /\ c \notin Members(runs[r].attempts)
        /\ isSent[c]
        /\ \E q \in RunIds \ {r} : c \in runs[q].marked

RECURSIVE IsSubsequence(_, _)
\* a is b with some elements left out
IsSubsequence(a, b) ==
    IF a = <<>> THEN TRUE
    ELSE IF b = <<>> THEN FALSE
    ELSE IF Head(a) = Head(b) THEN IsSubsequence(Tail(a), Tail(b))
    ELSE IsSubsequence(a, Tail(b))

\* C8: the send attempts of a campaign run are a subsequence of its loaded
\* list in retrieval order; at most one SendEmail is in flight; no contact is
\* attempted twice, so a failed contact is never attempted again
C8_AttemptsInOrderOnce ==
    \A r \in RunIds :
        LET run == runs[r]
        IN /\ IsSubsequence(run.attempts, run.contacts)
           /\ \A j, k \in 1..Len(run.attempts) :
                 j # k => run.attempts[j] # run.attempts[k]
           /\ run.inflight \in {0, 1}
           /\ run.inflight = 1 <=> run.pc = "sending"
           /\ run.failed \subseteq Members(run.attempts)

\* a finished run over three contacts: the first failed and was not tried
\* again, the second was skipped, the third was attempted
C8_Witness ==
    \E r \in RunIds :
        /\ runs[r].pc = "done"
        /\ Len(runs[r].contacts) = 3
        /\ runs[r].attempts = <<runs[r].contacts[1], runs[r].contacts[3]>>
        /\ runs[r].contacts[1] \in runs[r].failed

\* C9: whenever a run (a campaign goroutine or a send-to-all call) is in a
\* send attempt that is not its first, it has slept the full pacing delay of
\* its path since its previous attempt ended
C9_DelayBetweenAttempts ==
    /\ \A r \in RunIds :
          runs[r].pc = "sending" /\ Len(runs[r].attempts) >= 2
             => runs[r].gap >= CampaignDelay
    /\ \A s \in SyncIds :
          syncs[s].pc = "sending" /\ Len(syncs[s].attempts) >= 2
             => syncs[s].gap >= SyncDelay

\* a goroutine and a send-to-all call are each in a second attempt
C9_Witness ==
    /\ \E r \in RunIds :
          /\ runs[r].pc = "sending"
          /\ Len(runs[r].attempts) >= 2
          /\ runs[r].gap = CampaignDelay
    /\ \E s \in SyncIds :
          /\ syncs[s].pc = "sending"
          /\ Len(syncs[s].attempts) >= 2
          /\ syncs[s].gap = SyncDelay

\* C10 as stated: a campaign run has not slept before its first attempt,
\* and it ends with no sleep after its last attempt
C10_AsStated ==
    \A r \in RunIds :
        /\ runs[r].pc = "sending" /\ Len(runs[r].attempts) = 1 => runs[r].gap = 0
        /\ runs[r].pc = "done" /\ runs[r].attempts # <<>> => runs[r].gap = 0

Delivered(run) == run.marked \cup run.updFailed

C13_UpdateFailureOnlyLogged ==
    [][\A r \in RunIds :
          /\ (runs[r].pc = "update" /\ runs'[r].updFailed # runs[r].updFailed)
             =>
             /\ runs'[r].updFailed = runs[r].updFailed \cup {Current(runs[r])}
             /\ isSent' = isSent
             /\ runs'[r].pc = "sleep"
             /\ runs'[r].i = runs[r].i
             /\ runs'[r].attempts = runs[r].attempts
             /\ runs'[r].marked = runs[r].marked
          /\ (runs[r].pc = "sleep" /\ runs'[r] # runs[r]
                /\ Current(runs[r]) \in runs[r].updFailed)
             =>
             /\ runs'[r].i = runs[r].i + 1
             /\ runs'[r].gap = runs[r].gap + CampaignDelay
             /\ runs'[r].pc \in {"recheck", "done"}
             /\ runs'[r].attempts = runs[r].attempts
          /\ runs'[r].attempts # runs[r].attempts
             => Current(runs[r]) \notin runs[r].updFailed]_vars

\* a run delivered to its first contact, the update failed, and after the
\* delay it is sending to the second; the first is still pending
C13_Witness ==
    \E r \in RunIds :
        /\ runs[r].pc = "sending"
        /\ runs[r].i = 2
        /\ runs[r].attempts = SubSeq(runs[r].contacts, 1, 2)
        /\ runs[r].updFailed = {runs[r].contacts[1]}
        /\ runs[r].gap = CampaignDelay
        /\ ~isSent[runs[r].contacts[1]]

\* the positions of a goroutine that has not ended
Running == {"recheck", "sending", "update", "sleep"}

\* C14: when every call of a goroutine returns, every started goroutine
\* ends; when it has ended, each contact of its list was handled exactly
\* once: delivered to, failed, or skipped at its re-read; and while it runs
\* no step but its own changes its record, its list stays as loaded, and its
\* position never goes back or stops short of the end of the list
C14_EveryRunCompletes ==
    /\ \A r \in RunIds : (runs[r].pc \in Running) ~> (runs[r].pc = "done")
    /\ [](\A r \in RunIds :
             runs[r].pc = "done" =>
                LET run == runs[r]
                    skip == run.skipped \cup run.unread
                IN /\ Delivered(run) \cup run.failed \cup skip = Members(run.contacts)
                   /\ Delivered(run) \cap run.failed = {}
                   /\ Delivered(run) \cap skip = {}
                   /\ run.failed \cap skip = {}
                   /\ Len(run.attempts) = Cardinality(Delivered(run) \cup run.failed))
    /\ [][\A r \in RunIds :
             runs[r].pc \in Running =>
                /\ runs'[r].pc \in Running \cup {"done"}
                /\ runs'[r].contacts = runs[r].contacts
                /\ runs'[r].i \in {runs[r].i, runs[r].i + 1}
                /\ runs'[r].pc = "done" <=> runs'[r].i = Len(runs[r].contacts) + 1
                /\ runs'[r] # runs[r] => \A q \in RunIds \ {r} : runs'[q] = runs[q]]_vars

\* two runs over the same three contacts have both ended: one delivered to
\* all of them, the other skipped what it found sent
C14_Witness ==
    \E r, q \in RunIds :
        /\ r # q
        /\ runs[r].pc = "done" /\ runs[q].pc = "done"
        /\ Len(runs[r].contacts) = 3 /\ runs[q].contacts = runs[r].contacts
        /\ Delivered(runs[r]) = Members(runs[r].contacts)
        /\ runs[q].skipped # {}

\* the stages of a call, in the order SendEmail runs them, without the
\* deferred "quit"
RECURSIVE StagesIssued(_)
StagesIssued(issued) ==
    IF issued = <<>> THEN <<>>
    ELSE IF Head(issued) = "quit" THEN StagesIssued(Tail(issued))
    ELSE <<Head(issued)>> \o StagesIssued(Tail(issued))

\* the position of a stage in SendStages
StageIndex(stage) == CHOOSE k \in 1..Len(SendStages) : SendStages[k] = stage

\* the stage a returned error names
FailedStage(err) == CHOOSE stage \in SendOutcomes : SendEmail(stage) = err

\* C15 as stated: the stages a call has issued are a prefix of connect,
\* greeting, AUTH, MAIL FROM, RCPT TO, DATA, body, end of data; and a call
\* that returned an error issued nothing after the stage that failed
C15_AsStated ==
    /\ StagesIssued(smtp.issued) =
          SubSeq(SendStages, 1, Len(StagesIssued(smtp.issued)))
    /\ (smtp.pc = "returned" /\ smtp.err # "nil")
          => Len(StagesIssued(smtp.issued)) = StageIndex(FailedStage(smtp.err))

\* C16 as stated: a call that returned nil ran every stage and the relay
\* accepted the message; a call that returned an error left no message
\* accepted by the relay
C16_AsStated ==
    smtp.pc = "returned" =>
        /\ smtp.err = "nil" =>
              smtp.accepted /\ StagesIssued(smtp.issued) = SendStages
        /\ smtp.err # "nil" => ~smtp.accepted

\* C20 as stated: a call whose attachment cannot be opened fails without
\* issuing any transport command for its message
C20_AsStated ==
    (smtp.attach = "missing" /\ smtp.pc # "idle")
       => /\ smtp.issued = <<>>
          /\ smtp.conn = "none"
          /\ smtp.pc = "returned" => smtp.err # "nil"

\* C17: a send-to-all call that got past its store reads holds every
\* contact of the owner, sent or pending, in store order; what it has
\* attempted is always the front of that list; and when it returned without
\* a send failure it attempted the whole list
C17_SendToAllIgnoresState ==
    \A s \in SyncIds :
        LET sync == syncs[s]
        IN (sync.all /\ (sync.attempts # <<>> \/ (sync.pc = "done" /\ sync.resp = "nil")))
           =>
           /\ Members(sync.contacts) = {c \in Contacts : ContactOwner(c) = sync.owner}
           /\ \A j, k \in 1..Len(sync.contacts) :
                 j < k => sync.contacts[j] < sync.contacts[k]
           /\ sync.attempts = SubSeq(sync.contacts, 1, Len(sync.attempts))
           /\ (sync.pc = "done" /\ sync.failedAt = 0) => sync.attempts = sync.contacts
           /\ sync.pc # "done" => sync.failedAt = 0

\* a send-to-all call attempted every contact and returned 200 although
\* some of them were already sent and some pending
C17_Witness ==
    \E s \in SyncIds :
        /\ syncs[s].all
        /\ syncs[s].pc = "done"
        /\ syncs[s].status = 200
        /\ Members(syncs[s].attempts) = Contacts
        /\ \E c \in Contacts : isSent[c]
        /\ \E c \in Contacts : ~isSent[c]

\* C18 as stated: the time a send-to-all call sleeps between two
\* consecutive sends is the time a campaign goroutine sleeps between two
\* consecutive sends
C18_AsStated ==
    \A s \in SyncIds :
        (syncs[s].pc = "sending" /\ Len(syncs[s].attempts) >= 2)
           => syncs[s].gap = CampaignDelay

\* C18 amended: between two consecutive sends a send-to-all call sleeps
\* exactly SyncDelay (2 seconds) and a campaign goroutine exactly
\* CampaignDelay (2 minutes): each path has its own fixed delay, and the
\* synchronous one is the shorter
C18_EachPathItsOwnDelay ==
    /\ SyncDelay < CampaignDelay
    /\ \A s \in SyncIds :
          (syncs[s].pc = "sending" /\ Len(syncs[s].attempts) >= 2)
             => syncs[s].gap = SyncDelay /\ syncs[s].gap # CampaignDelay
    /\ \A r \in RunIds :
          (runs[r].pc = "sending" /\ Len(runs[r].attempts) >= 2)
             => runs[r].gap = CampaignDelay /\ runs[r].gap # SyncDelay

\* a send-to-all call is in its third send 2 seconds after its second, while
\* a goroutine is in its third send 2 minutes after its second
C18_Witness ==
    /\ \E s \in SyncIds :
          /\ syncs[s].pc = "sending"
          /\ Len(syncs[s].attempts) = 3
          /\ syncs[s].gap = SyncDelay
    /\ \E r \in RunIds :
          /\ runs[r].pc = "sending"
          /\ Len(runs[r].attempts) = 3
          /\ runs[r].gap = CampaignDelay

\* the owner of the request answered in this step has both credentials
\* and a template
Configured(u) ==
    /\ u \in Accounts
    /\ ~AbsentOrEmpty(users[u].professionalEmail)
    /\ ~AbsentOrEmpty(users[u].mailAppPassword)
    /\ \E t \in templates : t.userId = u

\* C19 as stated: a request answered with success found a pending contact;
\* with nothing pending the request is rejected
C19_AsStated ==
    \A r \in RunIds :
        /\ runs[r].status = 200 => runs[r].contacts # <<>>
        /\ runs[r].pc # "noop"

\* C19 amended: the credentials and the template are the preconditions
\* tested at the start; the pending set is not one: a request of a
\* configured owner whose store reads succeed is answered with success (200)
\* whether or not a contact is pending, a goroutine being started exactly when
\* one is; and every rejection carries one of the four errors of the store
\* reads and the credential test
C19_EmptySetIsNotRejected ==
    [][\A r \in RunIds :
          LET u == runs'[r].owner
              pending == {c \in Contacts : ContactOwner(c) = u /\ ~isSent[c]}
          IN RequestAnswered(r) =>
                /\ (Configured(u) /\ runs'[r].resp \notin StoreReadFailures)
                   =>
                   /\ runs'[r].resp = "nil"
                   /\ runs'[r].status = 200
                   /\ runs'[r].pc = "noop" <=> pending = {}
                   /\ runs'[r].pc = "recheck" <=> pending # {}
                /\ runs'[r].status = 500
                   <=> runs'[r].resp \in StoreReadFailures
                                           \cup {"user email credentials not configured"}
                /\ runs'[r].status \in {200, 500}]_vars

\* the first request of a configured owner whose contacts are all sent was
\* answered 200 with no goroutine started
C19_Witness ==
    /\ Configured("u1")
    /\ \A c \in Contacts : isSent[c]
    /\ runs[1].pc = "noop"
    /\ runs[1].status = 200
    /\ runs[1].resp = "nil"
    /\ \A r \in RunIds \ {1} : runs[r].pc = "idle"

\* the position of event e in a sequence, 0 when it is not there
PositionOf(e, list) ==
    IF \E k \in 1..Len(list) : list[k] = e
      THEN CHOOSE k \in 1..Len(list) : list[k] = e /\ \A j \in 1..(k - 1) : list[j] # e
      ELSE 0

\* C30: a call is holding an open connection only between its own dial and
\* its return; a call that returned after its dial succeeded has closed the
\* connection, whatever stage failed; when the client was created QUIT was
\* issued, and before the connection was closed; and a call starts with no
\* connection: what an earlier call opened is closed, and the first stage of
\* every call is its own dial
C30_ConnectionClosedOnEveryPath ==
    /\ smtp.conn = "open" =>
          /\ smtp.pc \in {"client", "auth", "mail", "rcpt", "data", "write", "close"}
          /\ smtp.issued # <<>>
    /\ smtp.issued # <<>> => Head(smtp.issued) = "dial"
    /\ smtp.pc \in {"idle", "dial"} => smtp.conn = "none" /\ smtp.issued = <<>>
    /\ smtp.pc = "returned" =>
          /\ smtp.conn # "open"
          /\ smtp.err # SendEmail("dial") =>
                smtp.conn = "closed" /\ PositionOf("close", smtp.cleanup) # 0
          /\ smtp.client =>
                /\ PositionOf("quit", smtp.cleanup) # 0
                /\ PositionOf("quit", smtp.cleanup) < PositionOf("close", smtp.cleanup)
                /\ smtp.issued[Len(smtp.issued)] = "quit"
          /\ smtp.conn = "none" => smtp.err = SendEmail("dial")

\* a call whose authentication was refused has returned: QUIT was issued
\* and then the connection was closed
C30_Witness ==
    /\ smtp.pc = "returned"
    /\ smtp.err = SendEmail("auth")
    /\ smtp.client
    /\ smtp.conn = "closed"
    /\ smtp.cleanup = <<"quit", "close">>

\* the contacts SendEmail returned nil for in a synchronous call
SyncDelivered(sync) ==
    (Members(sync.attempts) \ {sync.failedAt})
      \ (IF sync.pc = "sending" THEN {sync.contacts[sync.i]} ELSE {})

\* C26: no step of a synchronous send, single or send-to-all, changes the
\* sent flag of any contact (or the accounts or the templates): a contact
\* that was pending when it was delivered to is pending afterwards; and a
\* campaign accepted afterwards loads every pending contact of its owner,
\* those a synchronous send has delivered to included
C26_SyncNeverWritesRecipients ==
    [][/\ syncs' # syncs =>
             isSent' = isSent /\ users' = users /\ templates' = templates
       /\ \A r \in RunIds :
             (RequestAnswered(r) /\ runs'[r].resp = "nil") =>
                \A s \in SyncIds : \A c \in SyncDelivered(syncs[s]) :
                    (ContactOwner(c) = runs'[r].owner /\ ~isSent[c]) =>
                       c \in Members(runs'[r].contacts)]_vars

\* a send-to-all call returned 200 after delivering to a contact, the
\* contact was still pending, and a campaign run has sent to it again and
\* marked it
C26_Witness ==
    \E s \in SyncIds : \E r \in RunIds : \E c \in Contacts :
        /\ syncs[s].all
        /\ syncs[s].pc = "done"
        /\ syncs[s].status = 200
        /\ c \in SyncDelivered(syncs[s])
        /\ c \in Members(runs[r].attempts)
        /\ c \in runs[r].marked

\* C27: a synchronous request that got past the credential test sends
\* from the stored address with the stored secret of its owner, whatever
\* sender_email and sender_password the request carried: the step it enters
\* with is the step that any other sender fields would have produced, and
\* the sender stays the same for every send of the call
C27_SenderFieldsIgnored ==
    [][\A s \in SyncIds :
          /\ SyncEntered(s) =>
                /\ \A other \in SenderInputs :
                      \E u \in UserIds, sendToAll \in BOOLEAN, rcpt \in RecipientInputs,
                         dbFail \in {"none", "user", "contacts"} :
                         /\ u = syncs'[s].owner
                         /\ sendToAll = syncs'[s].all
                         /\ SendEmailForUser(s, u, sendToAll, rcpt, dbFail, other)
                /\ syncs'[s].attempts # <<>> =>
                      /\ syncs'[s].from.senderEmail = users[syncs'[s].owner].professionalEmail
                      /\ syncs'[s].from.senderPassword = users[syncs'[s].owner].mailAppPassword
                      /\ syncs'[s].from \notin SenderInputs
          /\ syncs[s].pc # "idle" => syncs'[s].from = syncs[s].from]_vars

\* a send-to-all call has delivered to two contacts and is sending to a
\* third, all from the stored address
C27_Witness ==
    \E s \in SyncIds :
        /\ syncs[s].all
        /\ syncs[s].pc = "sending"
        /\ Len(syncs[s].attempts) = NumContacts
        /\ syncs[s].from.senderEmail = users[syncs[s].owner].professionalEmail
        /\ syncs[s].from.senderPassword = users[syncs[s].owner].mailAppPassword

\* the tokens the spec names as recognized
Recognized == {"{name}", "{company}", "{hr_name}"}

\* C22 as stated: the subject of a composed message holds no recognized
\* token (every message has a recipient name, a company and an owner name)
C22_AsStated ==
    msg.pc = "composed" =>
        \A k \in 1..Len(msg.req.subject) : msg.req.subject[k] \notin Recognized

\* the text with each recognized token replaced by its value, in one pass
\* over the text
Substituted(text, contact, user) ==
    LET value(piece) == IF piece = "{name}" THEN contact.name
                        ELSE IF piece = "{company}" THEN contact.companyName
                        ELSE IF piece = "{hr_name}" THEN user.name
                        ELSE <<piece>>
        F[k \in 0..Len(text)] == IF k = 0 THEN <<>> ELSE F[k - 1] \o value(text[k])
    IN F[Len(text)]

\* C23 as stated: the composed body is the template body with every
\* {name}, {company} and {hr_name} replaced by the recipient's name, the
\* recipient's company and the owner's name, and everything else as it was
C23_AsStated ==
    msg.pc = "composed" =>
        msg.req.body = Substituted(msg.template.body, msg.contact, msg.user)

\* C29 as stated: every message of an upload request carries the file that
\* request uploaded
C29_AsStated ==
    \A p \in PostIds :
        \A k \in 1..Len(posts[p].carried) : posts[p].carried[k] = p

\* C21 as stated: no answer of any request holds a mail app password
C21_AsStated ==
    \A q \in ReqIds : reqs[q].resp.mailAppPassword = ""

\* C24: the Template table never holds two rows of one account, whatever
\* Signup, GetProfile, UpdateTemplate and EnhanceTemplate requests ran and
\* however their store calls interleaved; every row belongs to an account;
\* and so the lookup by owner finds at most one row
C24_AtMostOneTemplate ==
    /\ \A t1, t2 \in templates : t1.userId = t2.userId => t1 = t2
    /\ \A t \in templates : t.userId \in DOMAIN users
    /\ \A u \in AccountIds : Cardinality(FindTemplate(u)) <= 1

\* two requests raced to create the template of the account that signed
\* up: the profile request created it, Signup's own CreateOne was refused
\* by the index and only printed the failure
C24_Witness ==
    \E q, p \in ReqIds :
        /\ reqs[q].op = "Signup" /\ reqs[q].pc = "done"
        /\ reqs[q].resp.status = 201
        /\ reqs[q].logged = <<"Failed to create default template">>
        /\ reqs[p].op = "GetProfile" /\ reqs[p].pc = "done"
        /\ reqs[p].owner = reqs[q].owner
        /\ reqs[p].resp.template # {}
        /\ Cardinality(FindTemplate(reqs[q].owner)) = 1

\* C25 as stated: when an EnhanceTemplate request of an owner who had a
\* template is answered 200, and no other request ran, the template's name
\* and subject are what they were when the request came
C25_AsStated ==
    \A q \in ReqIds :
        (/\ reqs[q].op = "EnhanceTemplate"
         /\ reqs[q].pc = "done"
         /\ reqs[q].resp.status = 200
         /\ \A p \in ReqIds \ {q} : reqs[p].pc = "idle")
        =>
        \A before \in reqs[q].had : \A t \in FindTemplate(reqs[q].owner) :
            t.name = before.name /\ t.subject = before.subject

\* C28: what a goroutine captured when its request was accepted is what
\* the store held at that moment (the credentials, the template, and the
\* row of every loaded contact); it never changes afterwards; and every
\* SendEmail call of the run is made with the captured sender and secret,
\* to the captured address of the contact, with the captured subject and
\* the captured body composed with the captured name and company, whatever
\* the store holds by then
C28_RunSendsFromSnapshot ==
    [][\A r \in RunIds :
          LET u == runs'[r].owner
              k == runs'[r].i
          IN /\ (RequestAnswered(r) /\ runs'[r].pc \notin {"rejected", "noop"}) =>
                   /\ runs'[r].from.senderEmail = users[u].professionalEmail
                   /\ runs'[r].from.senderPassword = users[u].mailAppPassword
                   /\ \E t \in templates :
                         /\ t.userId = u
                         /\ runs'[r].template =
                               [name |-> t.name, subject |-> t.subject, body |-> t.body]
                   /\ Len(runs'[r].rows) = Len(runs'[r].contacts)
                   /\ \A j \in 1..Len(runs'[r].contacts) :
                         runs'[r].rows[j] = details[runs'[r].contacts[j]]
             /\ runs[r].pc # "idle" =>
                   /\ runs'[r].from = runs[r].from
                   /\ runs'[r].template = runs[r].template
                   /\ runs'[r].rows = runs[r].rows
                   /\ runs'[r].contacts = runs[r].contacts
             /\ runs'[r].attempts # runs[r].attempts =>
                   /\ runs'[r].req.senderEmail = runs[r].from.senderEmail
                   /\ runs'[r].req.senderPassword = runs[r].from.senderPassword
                   /\ runs'[r].req.recipientEmail = runs[r].rows[k].email
                   /\ runs'[r].req.subject = runs[r].template.subject
                   /\ runs'[r].req.body =
                         PrepareBody(runs[r].template, runs[r].rows[k],
                                     [name |-> UserName(u)])
             /\ runs'[r].attempts = runs[r].attempts => runs'[r].req = runs[r].req]_vars

\* the owner replaced the template while a run was going, and the run is
\* sending its second message with the subject and body it captured
C28_Witness ==
    \E r \in RunIds :
        /\ runs[r].pc = "sending"
        /\ Len(runs[r].attempts) >= 2
        /\ runs[r].template.subject = DefaultTemplate.subject
        /\ runs[r].req.subject = DefaultTemplate.subject
        /\ \A t \in FindTemplate(runs[r].owner) : t.subject # DefaultTemplate.subject
        /\ \E q \in ReqIds : reqs[q].op = "UpdateTemplate" /\ reqs[q].resp.status = 200

====
